---- MODULE Spec2Model ----
(***************************************************************************)
(* DfuSe firmware container codec (REVrobotics/DfuSeFile, DfuSeFile.h).    *)
(*                                                                         *)
(* The model follows the header byte for byte: the CRC32 stream buffer,   *)
(* the target, image and file records with their fixed-width prefixes,    *)
(* the builder operations (DFUImage, AddTarget, DFUFile, AddImage), Write  *)
(* and the parsing constructor DFUFile(filename).  Integers keep the       *)
(* width of the C++ fields (uint8_t, uint16_t, uint32_t); multi-byte       *)
(* fields are laid out in memory order of a little-endian host, which is   *)
(* what the raw read/write of the fields produces there.  A field the      *)
(* code never initialises holds the indeterminate value `junk`.            *)
(***************************************************************************)
EXTENDS Integers, Sequences, FiniteSets, TLC

VARIABLES
    junk,      \* the value an uninitialised field happens to hold in this run
    image,     \* the DFUImage the client is building
    file,      \* the DFUFile the client is building
    disk,      \* the file on disk: [exists, bytes]
    parsed,    \* the DFUFile last obtained from DFUFile(filename)
    sb,        \* a detail::crcstreambuf and the chunks written to it
    dc,        \* a checksum chained through detail::crc32 and the chunks fed
    last       \* the operation performed last and what it was given

vars == <<junk, image, file, disk, parsed, sb, dc, last>>

-----------------------------------------------------------------------------
(* Bounds of the model *)

\* largest indeterminate value an uninitialised field is given
MaxJunk == 1
\* most images a container under construction holds
MaxImages == 2
\* most targets an image under construction holds
MaxTargets == 2
\* most chunks fed to one checksum
MaxChunks == 2
\* longest chunk fed to a checksum
MaxChunkLen == 2
\* bytes cut from either end of a written file to make a parser input
MaxCut == 30
\* most AddImage calls made on one container by the repeating client
MaxAdded == 256

-----------------------------------------------------------------------------
(* Fixed-width integers and byte strings *)
(*                                                                         *)
(* A uint8_t or uint16_t is its value.  A uint32_t is the four bytes it    *)
(* occupies in memory, least significant first: the code reads and writes  *)
(* these fields as raw memory, and TLC's integers are narrower            *)
(* than 32 unsigned bits.                                                  *)

U8 == 256
U16 == 65536

\* the uint32_t whose upper and lower 16 bits are hi and lo
W(hi, lo) == <<lo % 256, lo \div 256, hi % 256, hi \div 256>>

Lo16(w) == w[1] + 256 * w[2]
Hi16(w) == w[3] + 256 * w[4]

\* the uint32_t of a number below 2^31
U32Of(n) == W(n \div U16, n % U16)

\* a uint32_t below 2^31 as a number
Small(w) == w[4] < 128
Val(w) == Lo16(w) + U16 * Hi16(w)

\* a + b on uint32_t operands, wrapping
Add32(a, b) ==
    LET lo == Lo16(a) + Lo16(b)
        hi == Hi16(a) + Hi16(b) + lo \div U16
    IN  W(hi % U16, lo % U16)

RECURSIVE BitXor(_, _, _)
BitXor(a, b, n) ==
    IF n = 0 THEN 0
    ELSE ((a + b) % 2) + 2 * BitXor(a \div 2, b \div 2, n - 1)

\* a ^ b on 4-bit operands, tabulated
NibXor == [a \in 0..15 |-> [b \in 0..15 |-> BitXor(a, b, 4)]]

\* a ^ b on uint8_t operands
Xor8(a, b) == NibXor[a % 16][b % 16] + 16 * NibXor[a \div 16][b \div 16]

\* a ^ b on uint32_t operands
Xor(a, b) ==
    <<Xor8(a[1], b[1]), Xor8(a[2], b[2]), Xor8(a[3], b[3]), Xor8(a[4], b[4])>>

\* a >> 1 and (a >> 8) & 0x00FFFFFF on a uint32_t
Shr1(a) ==
    <<(a[1] \div 2) + 128 * (a[2] % 2), (a[2] \div 2) + 128 * (a[3] % 2),
      (a[3] \div 2) + 128 * (a[4] % 2), a[4] \div 2>>
Shr8(a) == <<a[2], a[3], a[4], 0>>

\* the bytes of a uint16_t in memory, and the uint16_t in two bytes of memory
LE16(v) == <<v % 256, v \div 256>>
FromLE16(b) == b[1] + 256 * b[2]

\* the bytes of a sequence of chunks, in order
RECURSIVE Concat(_)
Concat(chunks) ==
    IF Len(chunks) = 0 THEN <<>>
    ELSE IF Len(chunks) = 1 THEN chunks[1]
    ELSE LET h == Len(chunks) \div 2
         IN  Concat(SubSeq(chunks, 1, h)) \o Concat(SubSeq(chunks, h + 1, Len(chunks)))

\* y, once x has been evaluated: a loop hands the value of its accumulator
\* to the next round, not the expression that computes it
Then(x, y) == IF x = x THEN y ELSE y

Fill(n, v) == [i \in 1..n |-> v]

\* the signatures "DfuSe", "Target" and "UFD" as bytes
SigDfuSe == <<68, 102, 117, 83, 101>>
SigTarget == <<84, 97, 114, 103, 101, 116>>
SigUfd == <<85, 70, 68>>

-----------------------------------------------------------------------------
(* CRC32: detail::crcstreambuf and detail::crc32 *)

Polynomial == W(\hedb8, \h8320)
InitialValue == W(\hffff, \hffff)
FinalXor == W(\hffff, \hffff)
FormatVersion == \h011a

RECURSIVE TableEntry(_, _, _)
TableEntry(crc, poly, j) ==
    IF j = 0 THEN crc
    ELSE TableEntry(IF crc[1] % 2 = 1 THEN Xor(Shr1(crc), poly) ELSE Shr1(crc),
                    poly, j - 1)

crc32_make_table(poly) == [i \in 0..255 |-> TableEntry(U32Of(i), poly, 8)]

crc32_table == crc32_make_table(Polynomial)

CrcTabLiteral ==
    <<
       W(\h0000, \h0000), W(\h7707, \h3096), W(\hee0e, \h612c), W(\h9909, \h51ba),
       W(\h076d, \hc419), W(\h706a, \hf48f), W(\he963, \ha535), W(\h9e64, \h95a3),
       W(\h0edb, \h8832), W(\h79dc, \hb8a4), W(\he0d5, \he91e), W(\h97d2, \hd988),
       W(\h09b6, \h4c2b), W(\h7eb1, \h7cbd), W(\he7b8, \h2d07), W(\h90bf, \h1d91),
       W(\h1db7, \h1064), W(\h6ab0, \h20f2), W(\hf3b9, \h7148), W(\h84be, \h41de),
       W(\h1ada, \hd47d), W(\h6ddd, \he4eb), W(\hf4d4, \hb551), W(\h83d3, \h85c7),
       W(\h136c, \h9856), W(\h646b, \ha8c0), W(\hfd62, \hf97a), W(\h8a65, \hc9ec),
       W(\h1401, \h5c4f), W(\h6306, \h6cd9), W(\hfa0f, \h3d63), W(\h8d08, \h0df5),
       W(\h3b6e, \h20c8), W(\h4c69, \h105e), W(\hd560, \h41e4), W(\ha267, \h7172),
       W(\h3c03, \he4d1), W(\h4b04, \hd447), W(\hd20d, \h85fd), W(\ha50a, \hb56b),
       W(\h35b5, \ha8fa), W(\h42b2, \h986c), W(\hdbbb, \hc9d6), W(\hacbc, \hf940),
       W(\h32d8, \h6ce3), W(\h45df, \h5c75), W(\hdcd6, \h0dcf), W(\habd1, \h3d59),
       W(\h26d9, \h30ac), W(\h51de, \h003a), W(\hc8d7, \h5180), W(\hbfd0, \h6116),
       W(\h21b4, \hf4b5), W(\h56b3, \hc423), W(\hcfba, \h9599), W(\hb8bd, \ha50f),
       W(\h2802, \hb89e), W(\h5f05, \h8808), W(\hc60c, \hd9b2), W(\hb10b, \he924),
       W(\h2f6f, \h7c87), W(\h5868, \h4c11), W(\hc161, \h1dab), W(\hb666, \h2d3d),
       W(\h76dc, \h4190), W(\h01db, \h7106), W(\h98d2, \h20bc), W(\hefd5, \h102a),
       W(\h71b1, \h8589), W(\h06b6, \hb51f), W(\h9fbf, \he4a5), W(\he8b8, \hd433),
       W(\h7807, \hc9a2), W(\h0f00, \hf934), W(\h9609, \ha88e), W(\he10e, \h9818),
       W(\h7f6a, \h0dbb), W(\h086d, \h3d2d), W(\h9164, \h6c97), W(\he663, \h5c01),
       W(\h6b6b, \h51f4), W(\h1c6c, \h6162), W(\h8565, \h30d8), W(\hf262, \h004e),
       W(\h6c06, \h95ed), W(\h1b01, \ha57b), W(\h8208, \hf4c1), W(\hf50f, \hc457),
       W(\h65b0, \hd9c6), W(\h12b7, \he950), W(\h8bbe, \hb8ea), W(\hfcb9, \h887c),
       W(\h62dd, \h1ddf), W(\h15da, \h2d49), W(\h8cd3, \h7cf3), W(\hfbd4, \h4c65),
       W(\h4db2, \h6158), W(\h3ab5, \h51ce), W(\ha3bc, \h0074), W(\hd4bb, \h30e2),
       W(\h4adf, \ha541), W(\h3dd8, \h95d7), W(\ha4d1, \hc46d), W(\hd3d6, \hf4fb),
       W(\h4369, \he96a), W(\h346e, \hd9fc), W(\had67, \h8846), W(\hda60, \hb8d0),
       W(\h4404, \h2d73), W(\h3303, \h1de5), W(\haa0a, \h4c5f), W(\hdd0d, \h7cc9),
       W(\h5005, \h713c), W(\h2702, \h41aa), W(\hbe0b, \h1010), W(\hc90c, \h2086),
       W(\h5768, \hb525), W(\h206f, \h85b3), W(\hb966, \hd409), W(\hce61, \he49f),
       W(\h5ede, \hf90e), W(\h29d9, \hc998), W(\hb0d0, \h9822), W(\hc7d7, \ha8b4),
       W(\h59b3, \h3d17), W(\h2eb4, \h0d81), W(\hb7bd, \h5c3b), W(\hc0ba, \h6cad),
       W(\hedb8, \h8320), W(\h9abf, \hb3b6), W(\h03b6, \he20c), W(\h74b1, \hd29a),
       W(\head5, \h4739), W(\h9dd2, \h77af), W(\h04db, \h2615), W(\h73dc, \h1683),
       W(\he363, \h0b12), W(\h9464, \h3b84), W(\h0d6d, \h6a3e), W(\h7a6a, \h5aa8),
       W(\he40e, \hcf0b), W(\h9309, \hff9d), W(\h0a00, \hae27), W(\h7d07, \h9eb1),
       W(\hf00f, \h9344), W(\h8708, \ha3d2), W(\h1e01, \hf268), W(\h6906, \hc2fe),
       W(\hf762, \h575d), W(\h8065, \h67cb), W(\h196c, \h3671), W(\h6e6b, \h06e7),
       W(\hfed4, \h1b76), W(\h89d3, \h2be0), W(\h10da, \h7a5a), W(\h67dd, \h4acc),
       W(\hf9b9, \hdf6f), W(\h8ebe, \heff9), W(\h17b7, \hbe43), W(\h60b0, \h8ed5),
       W(\hd6d6, \ha3e8), W(\ha1d1, \h937e), W(\h38d8, \hc2c4), W(\h4fdf, \hf252),
       W(\hd1bb, \h67f1), W(\ha6bc, \h5767), W(\h3fb5, \h06dd), W(\h48b2, \h364b),
       W(\hd80d, \h2bda), W(\haf0a, \h1b4c), W(\h3603, \h4af6), W(\h4104, \h7a60),
       W(\hdf60, \hefc3), W(\ha867, \hdf55), W(\h316e, \h8eef), W(\h4669, \hbe79),
       W(\hcb61, \hb38c), W(\hbc66, \h831a), W(\h256f, \hd2a0), W(\h5268, \he236),
       W(\hcc0c, \h7795), W(\hbb0b, \h4703), W(\h2202, \h16b9), W(\h5505, \h262f),
       W(\hc5ba, \h3bbe), W(\hb2bd, \h0b28), W(\h2bb4, \h5a92), W(\h5cb3, \h6a04),
       W(\hc2d7, \hffa7), W(\hb5d0, \hcf31), W(\h2cd9, \h9e8b), W(\h5bde, \hae1d),
       W(\h9b64, \hc2b0), W(\hec63, \hf226), W(\h756a, \ha39c), W(\h026d, \h930a),
       W(\h9c09, \h06a9), W(\heb0e, \h363f), W(\h7207, \h6785), W(\h0500, \h5713),
       W(\h95bf, \h4a82), W(\he2b8, \h7a14), W(\h7bb1, \h2bae), W(\h0cb6, \h1b38),
       W(\h92d2, \h8e9b), W(\he5d5, \hbe0d), W(\h7cdc, \hefb7), W(\h0bdb, \hdf21),
       W(\h86d3, \hd2d4), W(\hf1d4, \he242), W(\h68dd, \hb3f8), W(\h1fda, \h836e),
       W(\h81be, \h16cd), W(\hf6b9, \h265b), W(\h6fb0, \h77e1), W(\h18b7, \h4777),
       W(\h8808, \h5ae6), W(\hff0f, \h6a70), W(\h6606, \h3bca), W(\h1101, \h0b5c),
       W(\h8f65, \h9eff), W(\hf862, \hae69), W(\h616b, \hffd3), W(\h166c, \hcf45),
       W(\ha00a, \he278), W(\hd70d, \hd2ee), W(\h4e04, \h8354), W(\h3903, \hb3c2),
       W(\ha767, \h2661), W(\hd060, \h16f7), W(\h4969, \h474d), W(\h3e6e, \h77db),
       W(\haed1, \h6a4a), W(\hd9d6, \h5adc), W(\h40df, \h0b66), W(\h37d8, \h3bf0),
       W(\ha9bc, \hae53), W(\hdebb, \h9ec5), W(\h47b2, \hcf7f), W(\h30b5, \hffe9),
       W(\hbdbd, \hf21c), W(\hcaba, \hc28a), W(\h53b3, \h9330), W(\h24b4, \ha3a6),
       W(\hbad0, \h3605), W(\hcdd7, \h0693), W(\h54de, \h5729), W(\h23d9, \h67bf),
       W(\hb366, \h7a2e), W(\hc461, \h4ab8), W(\h5d68, \h1b02), W(\h2a6f, \h2b94),
       W(\hb40b, \hbe37), W(\hc30c, \h8ea1), W(\h5a05, \hdf1b), W(\h2d02, \hef8d)
    >>

crc_tab == [i \in 0..255 |-> CrcTabLiteral[i + 1]]

\* one round of the loop both routines run:
\* crc = ((crc >> 8) & 0x00FFFFFF) ^ table[(crc ^ val) & 0xFF]
CrcRound(table, crc, val) == Xor(Shr8(crc), table[Xor8(crc[1], val)])

RECURSIVE CrcLoop(_, _, _)
CrcLoop(table, crc, s) ==
    IF s = <<>> THEN crc
    ELSE LET c == CrcRound(table, crc, Head(s))
         IN  Then(c, CrcLoop(table, c, Tail(s)))

\* crcstreambuf::crc32_calculate: the loop, then the register is inverted
crc32_calculate(crc, s) == Xor(CrcLoop(crc32_table, crc, s), FinalXor)

\* crcstreambuf::xsputn: every write to the stream is one crc32_calculate
xsputn(crc, s) == crc32_calculate(crc, s)

\* detail::crc32(crc, buf, len)
crc32(crc, buf) == Xor(CrcLoop(crc_tab, crc, buf), FinalXor)

\* the register after a sequence of writes to a crcstreambuf
RECURSIVE StreamWrites(_, _)
StreamWrites(crc, writes) ==
    IF writes = <<>> THEN crc
    ELSE IF Len(writes) = 1 THEN xsputn(crc, writes[1])
    ELSE LET h == Len(writes) \div 2
             c == StreamWrites(crc, SubSeq(writes, 1, h))
         IN  Then(c, StreamWrites(c, SubSeq(writes, h + 1, Len(writes))))

-----------------------------------------------------------------------------
(* DFUTarget *)

NameLen == 255
ImagePrefixSize == 274
TargetPrefixSize == 8
InitialFileSize == 27
SuffixLength == 16

\* std::vector<uint8_t>: a vector of `size` bytes (a uint32_t, as every size
\* the code gives it is), `head` followed by the zeros that resize()
\* value-initialised and nothing has overwritten since
Vector(size, head) == [size |-> size, head |-> head]

At(v, i) == IF i <= Len(v.head) THEN v.head[i] ELSE 0

\* v.resize(n)
resize(v, n) ==
    [size |-> n,
     head |-> IF Small(n) /\ Val(n) < Len(v.head)
              THEN SubSeq(v.head, 1, Val(n)) ELSE v.head]

\* DFUTarget(address, data, size): size bytes copied from data
DFUTarget_Data(address, data) ==
    [m_prefix |-> [Address |-> address, Size |-> U32Of(Len(data))],
     m_elements |-> Vector(U32Of(Len(data)), data)]

\* DFUTarget(address, value, size): size copies of value
DFUTarget_Fill(address, value, size) ==
    [m_prefix |-> [Address |-> address, Size |-> U32Of(size)],
     m_elements |-> Vector(U32Of(size), Fill(size, value))]

\* DFUTarget(): nothing is initialised but the empty vector
DFUTarget_Default(j) ==
    [m_prefix |-> [Address |-> U32Of(j), Size |-> U32Of(j)],
     m_elements |-> Vector(U32Of(0), <<>>)]

\* operator<< (ostream, DFUTarget::Prefix): two writes
TargetPrefix_Out(p) == <<p.Address, p.Size>>

\* operator<< (ostream, DFUTarget): the prefix, then Size bytes of the vector
DFUTarget_Out(t) ==
    TargetPrefix_Out(t.m_prefix)
        \o <<[i \in 1..Val(t.m_prefix.Size) |-> At(t.m_elements, i)]>>

-----------------------------------------------------------------------------
(* DFUImage *)

\* std::strncpy(dst, src, n): the first n bytes of src, NUL-padded to n
strncpy(src, n) == [i \in 1..n |-> IF i <= Len(src) THEN src[i] ELSE 0]

\* DFUImage(id, targetName): Elements is left uninitialised
DFUImage_New(id, targetName, j) ==
    [m_prefix |-> [Signature |-> SigTarget,
                   AltSetting |-> id % U8,
                   IsNamed |-> U32Of(IF targetName = <<>> THEN 0 ELSE 1),
                   Name |-> strncpy(targetName, NameLen),
                   Size |-> U32Of(0),
                   Elements |-> U32Of(j)],
     m_targets |-> <<>>,
     m_valid |-> FALSE]

\* DFUImage(): only m_valid is initialised
DFUImage_Default(j) ==
    [m_prefix |-> [Signature |-> Fill(6, j % U8),
                   AltSetting |-> j % U8,
                   IsNamed |-> U32Of(j),
                   Name |-> Fill(NameLen, j % U8),
                   Size |-> U32Of(j),
                   Elements |-> U32Of(j)],
     m_targets |-> <<>>,
     m_valid |-> FALSE]

\* DFUImage::AddTarget
DFUImage_AddTarget(img, target) ==
    [img EXCEPT !.m_targets = Append(@, target),
                !.m_prefix.Size = Add32(@, Add32(target.m_prefix.Size, U32Of(TargetPrefixSize))),
                !.m_prefix.Elements = Add32(@, U32Of(1)),
                !.m_valid = TRUE]

\* operator<< (ostream, DFUImage::Prefix): six writes
ImagePrefix_Out(p) ==
    <<p.Signature, <<p.AltSetting>>, p.IsNamed, p.Name, p.Size, p.Elements>>

RECURSIVE Targets_Out(_)
Targets_Out(ts) ==
    IF ts = <<>> THEN <<>> ELSE DFUTarget_Out(Head(ts)) \o Targets_Out(Tail(ts))

\* operator<< (ostream, DFUImage&): the prefix, then every target
DFUImage_Out(img) == ImagePrefix_Out(img.m_prefix) \o Targets_Out(img.m_targets)

\* ostream << const DFUImage: operator<< (ostream, DFUImage&) does not bind
\* a const image, so the image converts through operator bool() and the
\* stream formats the bool: one write of the character '1' or '0'
DFUImage_OutConst(img) == <<IF img.m_valid THEN <<49>> ELSE <<48>>>>

-----------------------------------------------------------------------------
(* DFUFile *)

\* DFUFile(vendorId, productId, version)
DFUFile_New(vendorId, productId, version) ==
    [m_valid |-> FALSE,
     m_prefix |-> [Signature |-> SigDfuSe, Version |-> 1,
                   Size |-> U32Of(InitialFileSize), Targets |-> 0],
     m_images |-> <<>>,
     m_suffix |-> [DeviceVersion |-> version % U16,
                   Product |-> productId % U16,
                   Vendor |-> vendorId % U16,
                   DfuFormat |-> FormatVersion,
                   Ufd |-> SigUfd,
                   Length |-> SuffixLength,
                   Crc32 |-> U32Of(0)]]

\* operator<< (ostream, DFUFile::Prefix): four writes
FilePrefix_Out(p) ==
    <<p.Signature, <<p.Version>>, p.Size, <<p.Targets>>>>

\* the six suffix fields before the checksum, one write each
Suffix_OutNoCrc(s) ==
    <<LE16(s.DeviceVersion), LE16(s.Product), LE16(s.Vendor),
      LE16(s.DfuFormat), s.Ufd, <<s.Length>>>>

\* operator<< (ostream, DFUFile::Suffix): seven writes
Suffix_Out(s) == Suffix_OutNoCrc(s) \o <<s.Crc32>>

RECURSIVE Images_Out(_)
Images_Out(imgs) ==
    IF imgs = <<>> THEN <<>> ELSE DFUImage_Out(Head(imgs)) \o Images_Out(Tail(imgs))

\* the loop of AddImage over the images held, each streamed as a const image
Images_OutConst(imgs) ==
    Concat([i \in 1..Len(imgs) |-> DFUImage_OutConst(imgs[i])])

\* the writes AddImage sends to its crcstream
AddImage_CrcWrites(f) ==
    FilePrefix_Out(f.m_prefix) \o Images_OutConst(f.m_images)
        \o Suffix_OutNoCrc(f.m_suffix)

\* DFUFile::AddImage, the body of `if (image)`
AddImage_Body(f, img) ==
    LET g == [f EXCEPT !.m_images = Append(@, img),
                       !.m_valid = TRUE,
                       !.m_prefix.Targets = (@ + 1) % U8,
                       !.m_prefix.Size =
                           Add32(@, Add32(img.m_prefix.Size, U32Of(ImagePrefixSize)))]
    IN  [g EXCEPT !.m_suffix.Crc32 =
             StreamWrites(InitialValue, AddImage_CrcWrites(g))]

\* DFUFile::AddImage without its test of the image's validity
DFUFile_AddImage_unchecked(f, img) == AddImage_Body(f, img)

\* DFUFile::AddImage
DFUFile_AddImage(f, img) ==
    IF ~img.m_valid THEN f ELSE AddImage_Body(f, img)

\* the bytes DFUFile::Write sends to the output file
DFUFile_Out(f) ==
    Concat(FilePrefix_Out(f.m_prefix) \o Images_Out(f.m_images)
               \o Suffix_Out(f.m_suffix))

\* DFUFile::Write: nothing is written for an invalid container
DFUFile_Write(f, d) ==
    IF ~f.m_valid THEN d ELSE [exists |-> TRUE, bytes |-> DFUFile_Out(f)]

-----------------------------------------------------------------------------
(* Reading: std::istream::read and the operator>> of every record *)

\* in.read(buf, n) on the stream `in` over `data`, buf holding `old` before.
\* A stream that has failed reads nothing; a read that comes short stores
\* the bytes there are and sets failbit.
read(data, in, n, old) ==
    IF ~in.ok THEN [in |-> in, val |-> old]
    ELSE IF in.pos + n <= Len(data)
         THEN [in |-> [pos |-> in.pos + n, ok |-> TRUE],
               val |-> SubSeq(data, in.pos + 1, in.pos + n)]
         ELSE [in |-> [pos |-> Len(data), ok |-> FALSE],
               val |-> SubSeq(data, in.pos + 1, Len(data))
                           \o SubSeq(old, Len(data) - in.pos + 1, n)]

\* a comparison that stops one byte short of n
memcmp_differs_short(a, b, n) == SubSeq(a, 1, n - 1) # SubSeq(b, 1, n - 1)

\* std::memcmp(a, b, n) != 0
memcmp_differs(a, b, n) == SubSeq(a, 1, n) # SubSeq(b, 1, n)

\* std::vector<T>::resize(n) on a vector of records: new elements are
\* default-constructed
resizeSeq(seq, n, dflt) ==
    [i \in 1..n |-> IF i <= Len(seq) THEN seq[i] ELSE dflt]

\* a read into a vector that never sets failbit when the bytes run out
readVector_noFail(data, in, v) ==
    IF ~in.ok THEN [in |-> in, val |-> v]
    ELSE IF Small(v.size) /\ in.pos + Val(v.size) <= Len(data)
         THEN [in |-> [pos |-> in.pos + Val(v.size), ok |-> TRUE],
               val |-> Vector(v.size,
                              SubSeq(data, in.pos + 1, in.pos + Val(v.size)))]
         ELSE [in |-> [pos |-> Len(data), ok |-> TRUE],
               val |-> Vector(v.size,
                              SubSeq(data, in.pos + 1, Len(data))
                                  \o SubSeq(v.head, Len(data) - in.pos + 1, Len(v.head)))]

\* in.read into the whole of a vector of bytes
readVector(data, in, v) ==
    IF ~in.ok THEN [in |-> in, val |-> v]
    ELSE IF Small(v.size) /\ in.pos + Val(v.size) <= Len(data)
         THEN [in |-> [pos |-> in.pos + Val(v.size), ok |-> TRUE],
               val |-> Vector(v.size,
                              SubSeq(data, in.pos + 1, in.pos + Val(v.size)))]
         ELSE [in |-> [pos |-> Len(data), ok |-> FALSE],
               val |-> Vector(v.size,
                              SubSeq(data, in.pos + 1, Len(data))
                                  \o SubSeq(v.head, Len(data) - in.pos + 1, Len(v.head)))]

\* operator>> (istream, DFUTarget::Prefix)
TargetPrefix_In(data, in, old) ==
    LET a == read(data, in, 4, old.Address)
        s == read(data, a.in, 4, old.Size)
    IN  [in |-> s.in, obj |-> [Address |-> a.val, Size |-> s.val]]

\* operator>> (istream, DFUTarget): the prefix, resize, then Size bytes
DFUTarget_In(data, in, old) ==
    LET p == TargetPrefix_In(data, in, old.m_prefix)
        e == readVector(data, p.in, resize(old.m_elements, p.obj.Size))
    IN  [in |-> e.in, obj |-> [m_prefix |-> p.obj, m_elements |-> e.val]]

\* operator>> (istream, DFUImage::Prefix)
ImagePrefix_In(data, in, old) ==
    LET g == read(data, in, 6, old.Signature)
        a == read(data, g.in, 1, <<old.AltSetting>>)
        n == read(data, a.in, 4, old.IsNamed)
        m == read(data, n.in, NameLen, old.Name)
        s == read(data, m.in, 4, old.Size)
        e == read(data, s.in, 4, old.Elements)
    IN  [in |-> e.in,
         obj |-> [Signature |-> g.val, AltSetting |-> a.val[1],
                  IsNamed |-> n.val, Name |-> m.val,
                  Size |-> s.val, Elements |-> e.val]]

\* the loop of operator>> (istream, DFUImage) over its targets, from the i-th
RECURSIVE Targets_In(_, _, _, _)
Targets_In(data, in, ts, i) ==
    LET Checked(r) ==
            IF ~r.in.ok
            THEN [in |-> r.in, ts |-> [ts EXCEPT ![i] = r.obj], ok |-> FALSE]
            ELSE Targets_In(data, r.in, [ts EXCEPT ![i] = r.obj], i + 1)
    IN  IF i > Len(ts) THEN [in |-> in, ts |-> ts, ok |-> TRUE]
        ELSE Checked(DFUTarget_In(data, in, ts[i]))

\* operator>> (istream, DFUImage)
DFUImage_In(data, in, old, j) ==
    LET Targets(p, r) ==
            [in |-> r.in,
             obj |-> [m_prefix |-> p.obj, m_targets |-> r.ts, m_valid |-> r.ok]]
        Checked(p) ==
            IF ~p.in.ok \/ memcmp_differs(p.obj.Signature, SigTarget, 6)
            THEN [in |-> p.in,
                  obj |-> [old EXCEPT !.m_prefix = p.obj, !.m_valid = FALSE]]
            ELSE Targets(p, Targets_In(data, p.in,
                                       resizeSeq(old.m_targets, Val(p.obj.Elements),
                                                 DFUTarget_Default(j)), 1))
    IN  Checked(ImagePrefix_In(data, in, old.m_prefix))

\* operator>> (istream, DFUFile::Prefix)
FilePrefix_In(data, in, old) ==
    LET g == read(data, in, 5, old.Signature)
        v == read(data, g.in, 1, <<old.Version>>)
        s == read(data, v.in, 4, old.Size)
        t == read(data, s.in, 1, <<old.Targets>>)
    IN  [in |-> t.in,
         obj |-> [Signature |-> g.val, Version |-> v.val[1],
                  Size |-> s.val, Targets |-> t.val[1]]]

\* operator>> (istream, DFUFile::Suffix)
Suffix_In(data, in, old) ==
    LET d == read(data, in, 2, LE16(old.DeviceVersion))
        p == read(data, d.in, 2, LE16(old.Product))
        v == read(data, p.in, 2, LE16(old.Vendor))
        f == read(data, v.in, 2, LE16(old.DfuFormat))
        u == read(data, f.in, 3, old.Ufd)
        l == read(data, u.in, 1, <<old.Length>>)
        c == read(data, l.in, 4, old.Crc32)
    IN  [in |-> c.in,
         obj |-> [DeviceVersion |-> FromLE16(d.val), Product |-> FromLE16(p.val),
                  Vendor |-> FromLE16(v.val), DfuFormat |-> FromLE16(f.val),
                  Ufd |-> u.val, Length |-> l.val[1], Crc32 |-> c.val]]

\* the loop of DFUFile(filename) over its images, from the i-th
RECURSIVE Images_In(_, _, _, _, _)
Images_In(data, in, imgs, i, j) ==
    LET Checked(r) ==
            IF ~r.in.ok \/ ~r.obj.m_valid
            THEN [in |-> r.in, imgs |-> [imgs EXCEPT ![i] = r.obj], ok |-> FALSE]
            ELSE Images_In(data, r.in, [imgs EXCEPT ![i] = r.obj], i + 1, j)
    IN  IF i > Len(imgs) THEN [in |-> in, imgs |-> imgs, ok |-> TRUE]
        ELSE Checked(DFUImage_In(data, in, imgs[i], j))

\* a DFUFile none of whose members has been written yet
DFUFile_Uninit(j) ==
    [m_valid |-> FALSE,
     m_prefix |-> [Signature |-> Fill(5, j % U8), Version |-> j % U8,
                   Size |-> U32Of(j), Targets |-> j % U8],
     m_images |-> <<>>,
     m_suffix |-> [DeviceVersion |-> j % U16, Product |-> j % U16,
                   Vendor |-> j % U16, DfuFormat |-> j % U16,
                   Ufd |-> Fill(3, j % U8), Length |-> j % U8, Crc32 |-> U32Of(j)]]

\* DFUFile(filename)
DFUFile_Parse(d, j) ==
    LET u == DFUFile_Uninit(j)
        Images(p, r) ==
            IF ~r.ok
            THEN [u EXCEPT !.m_prefix = p.obj, !.m_images = r.imgs]
            ELSE [m_valid |-> TRUE, m_prefix |-> p.obj, m_images |-> r.imgs,
                  m_suffix |-> Suffix_In(d.bytes, r.in, u.m_suffix).obj]
        Checked(p) ==
            IF ~p.in.ok \/ memcmp_differs(p.obj.Signature, SigDfuSe, 5)
            THEN [u EXCEPT !.m_prefix = p.obj]
            ELSE Images(p, Images_In(d.bytes, p.in,
                                     resizeSeq(u.m_images, p.obj.Targets,
                                               DFUImage_Default(j)),
                                     1, j))
    IN  IF ~d.exists THEN u
        ELSE Checked(FilePrefix_In(d.bytes, [pos |-> 0, ok |-> TRUE], u.m_prefix))

\* DFUFile::Images()
DFUFile_Images(f) == f.m_images
-----------------------------------------------------------------------------
(* The client's inputs *)

LongName(n) == [i \in 1..n |-> 65 + (i % 26)]

\* (alt-setting id, name) pairs given to DFUImage(id, name): unnamed, a short
\* name, and a name that fills the whole name field
ImageArgs ==
    {<<0, <<>>>>, <<1, <<65, 112, 112>>>>, <<2, LongName(NameLen)>>}

\* targets given to AddTarget
TargetArgs ==
    {DFUTarget_Data(W(\h0800, \h0000), <<\hde, \had, \hbe, \hef>>),
     DFUTarget_Fill(W(\h0800, \h4000), \hff, 1)}

\* (vendorId, productId, version) given to DFUFile(...)
FileArgs == {<<\h1234, \h5678, \h0100>>}

\* chunks of bytes fed to a checksum
RECURSIVE SeqsUpTo(_, _)
SeqsUpTo(S, n) ==
    IF n = 0 THEN {<<>>}
    ELSE LET shorter == SeqsUpTo(S, n - 1)
         IN  shorter \cup {Append(s, x) : s \in {t \in shorter : Len(t) = n - 1}, x \in S}

Chunks == SeqsUpTo({0, 49, 255}, MaxChunkLen)

NoFile == [exists |-> FALSE, bytes |-> <<>>]

-----------------------------------------------------------------------------
(* The client: builds images and a container, writes it, reads it back *)

Init ==
    /\ junk \in 0..MaxJunk
    /\ \E a \in ImageArgs : image = DFUImage_New(a[1], a[2], junk)
    /\ \E a \in FileArgs : file = DFUFile_New(a[1], a[2], a[3])
    /\ disk = NoFile
    /\ parsed = DFUFile_Uninit(junk)
    /\ sb = [crc32 |-> InitialValue, written |-> <<>>]
    /\ dc = [crc |-> InitialValue, fed |-> <<>>]
    /\ last = "New"

NewImage ==
    /\ \E a \in ImageArgs : image' = DFUImage_New(a[1], a[2], junk)
    /\ last' = "NewImage"
    /\ UNCHANGED <<junk, file, disk, parsed, sb, dc>>

AddTarget ==
    /\ Len(image.m_targets) < MaxTargets
    /\ \E t \in TargetArgs : image' = DFUImage_AddTarget(image, t)
    /\ last' = "AddTarget"
    /\ UNCHANGED <<junk, file, disk, parsed, sb, dc>>

AddImage ==
    /\ Len(file.m_images) < MaxImages \/ ~image.m_valid
    /\ file' = DFUFile_AddImage(file, image)
    /\ last' = "AddImage"
    /\ UNCHANGED <<junk, image, disk, parsed, sb, dc>>

Write ==
    /\ disk' = DFUFile_Write(file, disk)
    /\ last' = "Write"
    /\ UNCHANGED <<junk, image, file, parsed, sb, dc>>

Parse ==
    /\ parsed' = DFUFile_Parse(disk, junk)
    /\ last' = "Parse"
    /\ UNCHANGED <<junk, image, file, disk, sb, dc>>

Next == NewImage \/ AddTarget \/ AddImage \/ Write \/ Parse

Spec == Init /\ [][Next]_vars

-----------------------------------------------------------------------------
(* The checksum routines on their own *)

Xsputn ==
    /\ Len(sb.written) < MaxChunks
    /\ \E s \in Chunks :
          sb' = [crc32 |-> xsputn(sb.crc32, s), written |-> Append(sb.written, s)]
    /\ last' = "xsputn"
    /\ UNCHANGED <<junk, image, file, disk, parsed, dc>>

Crc32Call ==
    /\ Len(dc.fed) < MaxChunks
    /\ \E s \in Chunks :
          dc' = [crc |-> crc32(dc.crc, s), fed |-> Append(dc.fed, s)]
    /\ last' = "crc32"
    /\ UNCHANGED <<junk, image, file, disk, parsed, sb>>

NextCrc == Xsputn \/ Crc32Call

InitCrc == Init /\ junk = 0 /\ image = DFUImage_New(0, <<>>, 0)

SpecCrc == InitCrc /\ [][NextCrc]_vars

-----------------------------------------------------------------------------
(* The parser on its own: DFUFile(filename) over a bounded set of input    *)
(* files, each a file some client wrote, cut short, with one byte of a     *)
(* signature changed or with an image's element count zeroed, or no file   *)
(* at all                                                                  *)

RECURSIVE AddTargets(_, _)
AddTargets(img, ts) ==
    IF ts = <<>> THEN img
    ELSE AddTargets(DFUImage_AddTarget(img, Head(ts)), Tail(ts))

RECURSIVE AddImages(_, _)
AddImages(f, imgs) ==
    IF imgs = <<>> THEN f
    ELSE AddImages(DFUFile_AddImage(f, Head(imgs)), Tail(imgs))

\* the images and containers a client can build within the bounds
BuiltImages(j) ==
    {AddTargets(DFUImage_New(a[1], a[2], j), ts) :
        a \in ImageArgs, ts \in SeqsUpTo(TargetArgs, MaxTargets) \ {<<>>}}

BuiltFiles(j) ==
    {AddImages(DFUFile_New(a[1], a[2], a[3]), imgs) :
        a \in FileArgs, imgs \in SeqsUpTo(BuiltImages(j), MaxImages) \ {<<>>}}

\* where the signature of each image record of a written container lies
RECURSIVE ImageOffsets(_, _)
ImageOffsets(imgs, at) ==
    IF imgs = <<>> THEN {}
    ELSE {at} \cup ImageOffsets(Tail(imgs), at + Len(Concat(DFUImage_Out(Head(imgs)))))

SignatureBytes(f) ==
    {1, 5} \cup UNION {{o + 1, o + 6} : o \in ImageOffsets(f.m_images, 11)}

\* the file b in which the image record at offset o declares no elements
ZeroElements(b, o) ==
    [i \in 1..Len(b) |->
        IF i \in (o + ImagePrefixSize - 3)..(o + ImagePrefixSize) THEN 0 ELSE b[i]]

\* the written file, its first n bytes, the file with byte p changed, or
\* the file with the element count of one image record set to zero
Mangled(f) ==
    LET b == DFUFile_Out(f)
    IN  {SubSeq(b, 1, n) : n \in {k \in 0..Len(b) : k <= MaxCut \/ Len(b) - k <= MaxCut}}
            \cup {[b EXCEPT ![p] = Xor8(@, 32)] : p \in SignatureBytes(f)}
            \cup {ZeroElements(b, o) : o \in ImageOffsets(f.m_images, 11)}

InputFiles(j) ==
    {NoFile} \cup
        {[exists |-> TRUE, bytes |-> b] : b \in UNION {Mangled(f) : f \in BuiltFiles(j)}}

InitParse ==
    /\ junk \in 0..MaxJunk
    /\ image = DFUImage_New(0, <<>>, junk)
    /\ \E a \in FileArgs : file = DFUFile_New(a[1], a[2], a[3])
    /\ disk \in InputFiles(junk)
    /\ parsed = DFUFile_Uninit(junk)
    /\ sb = [crc32 |-> InitialValue, written |-> <<>>]
    /\ dc = [crc |-> InitialValue, fed |-> <<>>]
    /\ last = "New"

NextParse == Parse

SpecParse == InitParse /\ [][NextParse]_vars

-----------------------------------------------------------------------------
(* A client that adds one image to a container over and over *)

InitMany ==
    /\ junk = 0
    /\ \E a \in ImageArgs, t \in TargetArgs :
          image = DFUImage_AddTarget(DFUImage_New(a[1], a[2], junk), t)
    /\ \E a \in FileArgs : file = DFUFile_New(a[1], a[2], a[3])
    /\ disk = NoFile
    /\ parsed = DFUFile_Uninit(junk)
    /\ sb = [crc32 |-> InitialValue, written |-> <<>>]
    /\ dc = [crc |-> InitialValue, fed |-> <<>>]
    /\ last = "New"

AddImageMany ==
    /\ Len(file.m_images) < MaxAdded
    /\ file' = DFUFile_AddImage(file, image)
    /\ last' = "AddImage"
    /\ UNCHANGED <<junk, image, disk, parsed, sb, dc>>

NextMany == AddImageMany

SpecMany == InitMany /\ [][NextMany]_vars

-----------------------------------------------------------------------------
(* The DfuSe layout, read off the bytes of a file record by record: where  *)
(* the format says each record lies and the first place the bytes fall     *)
(* short of it.  The properties below name their cases with it.            *)

FieldAt(b, p, n) == SubSeq(b, p + 1, p + n)

RECURSIVE WalkTargets(_, _, _, _)
WalkTargets(b, p, n, t) ==
    IF n = 0 THEN [kind |-> "ok", pos |-> p, image |-> 0, target |-> 0]
    ELSE IF p + 8 > Len(b)
         THEN [kind |-> "short target header", pos |-> p, image |-> 0, target |-> t]
    ELSE LET size == FieldAt(b, p + 4, 4)
         IN  IF ~Small(size) \/ p + 8 + Val(size) > Len(b)
             THEN [kind |-> "short payload", pos |-> p, image |-> 0, target |-> t]
             ELSE WalkTargets(b, p + 8 + Val(size), n - 1, t + 1)

RECURSIVE WalkImages(_, _, _, _)
WalkImages(b, p, n, i) ==
    IF n = 0 THEN [kind |-> "ok", pos |-> p, image |-> 0, target |-> 0]
    ELSE IF p + 6 <= Len(b) /\ FieldAt(b, p, 6) # SigTarget
         THEN [kind |-> "bad image signature", pos |-> p, image |-> i, target |-> 0]
    ELSE IF p + 274 > Len(b)
         THEN [kind |-> "short image prefix", pos |-> p, image |-> i, target |-> 0]
    ELSE LET w == WalkTargets(b, p + 274, Val(FieldAt(b, p + 270, 4)), 1)
         IN  IF w.kind # "ok" THEN [w EXCEPT !.image = i]
             ELSE WalkImages(b, w.pos, n - 1, i + 1)

Layout(b) ==
    IF Len(b) < 5 \/ FieldAt(b, 0, 5) # SigDfuSe
    THEN [kind |-> "bad file signature", pos |-> 0, image |-> 0, target |-> 0]
    ELSE IF Len(b) < 11
    THEN [kind |-> "short file prefix", pos |-> 0, image |-> 0, target |-> 0]
    ELSE LET w == WalkImages(b, 11, b[11], 1)
         IN  IF w.kind # "ok" THEN w
             ELSE IF w.pos + 16 > Len(b) THEN [w EXCEPT !.kind = "short suffix"]
             ELSE w

\* DFUFile(filename) has just run on a file that exists
ParsedAFile == last = "Parse" /\ disk.exists

\* the standard CRC32 of a byte string, bit by bit: reflected polynomial
\* 0xEDB88320, initial value 0xFFFFFFFF, one final XOR with 0xFFFFFFFF
RefBit(crc) == IF crc[1] % 2 = 1 THEN Xor(Shr1(crc), W(\hedb8, \h8320)) ELSE Shr1(crc)

RefByte(crc, v) ==
    RefBit(RefBit(RefBit(RefBit(RefBit(RefBit(RefBit(RefBit(
        Xor(crc, <<v, 0, 0, 0>>)))))))))

RECURSIVE RefFold(_, _, _, _)
RefFold(crc, s, lo, hi) ==
    IF lo > hi THEN crc
    ELSE IF lo = hi THEN RefByte(crc, s[lo])
    ELSE LET mid == (lo + hi) \div 2
             left == RefFold(crc, s, lo, mid)
         IN  Then(left, RefFold(left, s, mid + 1, hi))

StandardCrc32(s) ==
    Xor(RefFold(W(\hffff, \hffff), s, 1, Len(s)), W(\hffff, \hffff))

RECURSIVE SumImageSizes(_)
SumImageSizes(imgs) ==
    IF imgs = <<>> THEN 0
    ELSE 274 + Val(Head(imgs).m_prefix.Size) + SumImageSizes(Tail(imgs))

RECURSIVE SumTargetSizes(_)
SumTargetSizes(ts) ==
    IF ts = <<>> THEN 0
    ELSE Len(Head(ts).m_elements.head) + 8 + SumTargetSizes(Tail(ts))

-----------------------------------------------------------------------------
(* Properties *)

\* C1: once AddImage has added a valid image, the stored checksum, which is
\* what Write emits as the last 4 bytes, is the standard CRC32 of all the
\* bytes Write emits before it.
C1_CrcIsStandard ==
    file.m_valid =>
        LET b == DFUFile_Out(file)
        IN  /\ SubSeq(b, Len(b) - 3, Len(b)) = file.m_suffix.Crc32
            /\ file.m_suffix.Crc32 = StandardCrc32(SubSeq(b, 1, Len(b) - 4))

\* the same vendor, product, version, and image by image the same id, name
\* and targets (address, size, payload) in the same order
SameContent(a, b) ==
    /\ a.m_suffix.Vendor = b.m_suffix.Vendor
    /\ a.m_suffix.Product = b.m_suffix.Product
    /\ a.m_suffix.DeviceVersion = b.m_suffix.DeviceVersion
    /\ Len(a.m_images) = Len(b.m_images)
    /\ \A i \in 1..Len(a.m_images) :
          /\ i <= Len(b.m_images)
          /\ a.m_images[i].m_prefix.AltSetting = b.m_images[i].m_prefix.AltSetting
          /\ a.m_images[i].m_prefix.Name = b.m_images[i].m_prefix.Name
          /\ a.m_images[i].m_targets = b.m_images[i].m_targets

\* C2: a container built by AddImage calls, written by Write and parsed from
\* the written file comes back valid and with the same content.
C2_RoundTrip ==
    (ParsedAFile /\ file.m_valid /\ disk.bytes = DFUFile_Out(file)) =>
        parsed.m_valid /\ SameContent(parsed, file)

\* C3: the file size field is 11 plus, for each image held, 274 plus the
\* image's total element size; 11 for a fresh container.
C3_FileSizeField ==
    file.m_prefix.Size = U32Of(11 + SumImageSizes(file.m_images))

\* C4: an image's total element size is the sum of its targets' payload
\* lengths plus 8 each, and its element count is the number of targets:
\* both 0 for a new image.
C4_ImageBookkeeping ==
    /\ image.m_prefix.Size = U32Of(SumTargetSizes(image.m_targets))
    /\ image.m_prefix.Elements = U32Of(Len(image.m_targets))

\* C5: a file whose first 5 bytes are not "DfuSe" (an empty file too) parses
\* to an invalid container with no images; a file in which an image record's
\* signature is not "Target" leaves that image and the container invalid.
C5_SignatureRejection ==
    ParsedAFile =>
        LET w == Layout(disk.bytes)
        IN  /\ w.kind = "bad file signature" =>
                  ~parsed.m_valid /\ parsed.m_images = <<>>
            /\ w.kind = "bad image signature" =>
                  /\ ~parsed.m_valid
                  /\ w.image <= Len(parsed.m_images)
                  /\ ~parsed.m_images[w.image].m_valid

C5_Witness ==
    /\ ParsedAFile
    /\ Layout(disk.bytes).kind = "bad image signature"
    /\ Layout(disk.bytes).image = 2

\* C6: when a target record declares more payload bytes than the file has
\* left, the image holding it and the container are not valid.
C6_TruncationRejection ==
    ParsedAFile =>
        LET w == Layout(disk.bytes)
        IN  w.kind = "short payload" =>
                /\ ~parsed.m_valid
                /\ w.image <= Len(parsed.m_images)
                /\ ~parsed.m_images[w.image].m_valid

C6_Witness ==
    /\ ParsedAFile
    /\ junk = 0
    /\ Layout(disk.bytes).kind = "short payload"
    /\ Layout(disk.bytes).target = 2

\* C7: the parsed container is valid only if the prefix, every declared
\* image with all its targets and the whole 16-byte suffix were there to read.
C7_ValidOnlyIfComplete ==
    ParsedAFile => (parsed.m_valid => Layout(disk.bytes).kind = "ok")

\* C8: a checksum fed data1 and then data2 in two calls equals the checksum
\* of one call over data1 followed by data2, for the stream buffer and for
\* detail::crc32 alike.
C8_Chaining ==
    /\ Len(sb.written) = 2 =>
          sb.crc32 = crc32_calculate(InitialValue, sb.written[1] \o sb.written[2])
    /\ Len(dc.fed) = 2 =>
          dc.crc = crc32(InitialValue, dc.fed[1] \o dc.fed[2])

\* C9: the last byte of the serialized 255-byte name field is NUL, whatever
\* the name the image was created with.
C9_NameFieldTerminated ==
    LET field == ImagePrefix_Out(image.m_prefix)[4]
    IN  Len(field) = 255 /\ field[255] = 0

\* C10: AddImage with an invalid image changes nothing of the container:
\* not the image list, the image count, the file size field, the stored
\* checksum or the validity flag.
C10_AddImageInvalidNoOp ==
    [][(AddImage /\ ~image.m_valid) =>
          /\ file'.m_images = file.m_images
          /\ file'.m_prefix.Targets = file.m_prefix.Targets
          /\ file'.m_prefix.Size = file.m_prefix.Size
          /\ file'.m_suffix.Crc32 = file.m_suffix.Crc32
          /\ file'.m_valid = file.m_valid]_vars

C10_Witness == last = "AddImage" /\ ~image.m_valid /\ file.m_valid

\* C11: whenever parsing a file ends with the container invalid, Images()
\* reports no images, also when the failure came after an image had been
\* read successfully.
C11_FailedParseHoldsNoImages ==
    (ParsedAFile /\ ~parsed.m_valid) => DFUFile_Images(parsed) = <<>>

ValidHasTarget(img) == img.m_valid => Len(img.m_targets) >= 1

\* C12: in every state, an image whose validity flag is true holds at least
\* one target, whether it was built with AddTarget or obtained by parsing.
C12_ValidImageHasTarget ==
    /\ ValidHasTarget(image)
    /\ \A i \in 1..Len(file.m_images) : ValidHasTarget(file.m_images[i])
    /\ \A i \in 1..Len(parsed.m_images) : ValidHasTarget(parsed.m_images[i])

\* C13: after any number of AddImage calls on a fresh container, the image
\* count in the file prefix, the byte Write emits as the count, equals the
\* number of images the container holds.
C13_ImageCountMatches ==
    /\ file.m_prefix.Targets = Len(file.m_images)
    /\ FilePrefix_Out(file.m_prefix)[4] = <<Len(file.m_images)>>

====
